---------------------------- MODULE Spec2Model ----------------------------
(***************************************************************************)
(* Model of Telegram/SourceFiles/auth_session.cpp:                         *)
(*   - AuthSessionSettings::serialize / constructFromSerialized, over the  *)
(*     bytes a big-endian QDataStream (Qt_5_1) writes and reads;           *)
(*   - the panel setters of AuthSessionSettings;                           *)
(*   - AuthSession::moveSettingsFrom / saveSettingsDelayed and the save    *)
(*     timer;                                                              *)
(*   - AuthSession::checkAutoLock / checkAutoLockIn / localPasscodeChanged *)
(*     and the auto-lock timer.                                            *)
(***************************************************************************)
EXTENDS Integers, Sequences, FiniteSets, TLC

(***************************************************************************)
(* Bounds of the model.                                                    *)
(***************************************************************************)

\* A float64 ratio is a whole number of 1/(kRatioScale * RatioSubdivision).
RatioSubdivision == 10

\* The nested setter calls followed before a call counts as not returning.
MaxCallDepth == 4

\* The sessions created, one after the other.
MaxSessions == 2

\* The saveSettingsDelayed calls followed between two writes.
MaxPendingSaves == 2

\* The clock advances by TickMs, up to MaxSessionTime.
TickMs == 1000
MaxSessionTime == 3000
MaxLockTime == 7000

(***************************************************************************)
(* Program constants.                                                      *)
(***************************************************************************)

kAutoLockTimeoutLateMs == 3000

kLegacyCallsPeerToPeerNobody == 4

\* The fixed-point scale of dialogsWidthRatio in the blob.
kRatioScale == 1000000

MaxInt32 == 1073741823 + 1073741824

MinInt32 == (0 - MaxInt32) - 1

\* The representation of every float64 ratio whose scaled value does not fit
\* an int (a huge value, an infinity, a NaN): qRound's cast is undefined there.
RatioUnrepresentable == MaxInt32

(***************************************************************************)
(* Enumerations (declared in headers outside this file).                   *)
(***************************************************************************)

SelectorTabEmoji == 0

SelectorTabTags == {0, 1, 2}

ColumnSecond == 1

ColumnTags == {0, 1, 2}

RectPartTopRight == 4

RectPartTags == {1, 4, 64, 16}

SendFilesWayAlbum == 0

SendFilesWayTags == {0, 1, 2}

InputSubmitEnter == 0

InputSubmitTags == {0, 1}

SwitchSettingsNext == 1

SwitchSettingsTags == {0, 1, 2}

(***************************************************************************)
(* QDataStream: big-endian integers over a sequence of bytes.              *)
(***************************************************************************)

\* The four bytes of a non-negative value below 2^31.
UBytes(u) ==
    << u \div 16777216, (u \div 65536) % 256, (u \div 256) % 256, u % 256 >>

\* stream << qint32(v): two's complement, most significant byte first.
WriteInt32(v) ==
    IF v >= 0
    THEN UBytes(v)
    ELSE LET n == UBytes(0 - (v + 1))
         IN  << 255 - n[1], 255 - n[2], 255 - n[3], 255 - n[4] >>

\* The qint32 four bytes stand for.
Int32Of(b) ==
    IF b[1] < 128
    THEN ((b[1] * 256 + b[2]) * 256 + b[3]) * 256 + b[4]
    ELSE (0 - ((((255 - b[1]) * 256 + (255 - b[2])) * 256 + (255 - b[3])) * 256
               + (255 - b[4]))) - 1

\* stream << quint64(v), for the values below 2^31 the model uses.
WriteUInt64(v) == << 0, 0, 0, 0 >> \o UBytes(v)

\* A stream over `bytes`: the read position and the sticky status.
NewStream == [pos |-> 0, status |-> "Ok"]

AtEnd(bytes, st) == st.pos >= Len(bytes)

\* QDataStream::setStatus keeps the first status that is not Ok.
SetStatus(st, status) ==
    IF st.status = "Ok" THEN [st EXCEPT !.status = status] ELSE st

\* stream >> qint32: a short read consumes what is left, yields 0 and sets
\* ReadPastEnd.  The result is the stream and the value read.
ReadInt32(bytes, st) ==
    IF Len(bytes) - st.pos >= 4
    THEN [st |-> [st EXCEPT !.pos = st.pos + 4],
          val |-> Int32Of(SubSeq(bytes, st.pos + 1, st.pos + 4))]
    ELSE [st |-> SetStatus([st EXCEPT !.pos = Len(bytes)], "ReadPastEnd"),
          val |-> 0]

\* stream >> quint64, for values whose upper half is zero.
ReadUInt64(bytes, st) ==
    IF Len(bytes) - st.pos >= 8
    THEN [st |-> [st EXCEPT !.pos = st.pos + 8],
          val |-> Int32Of(SubSeq(bytes, st.pos + 5, st.pos + 8))]
    ELSE [st |-> SetStatus([st EXCEPT !.pos = Len(bytes)], "ReadPastEnd"),
          val |-> 0]

\* stream << QByteArray: the length, then the bytes.
WriteByteArray(a) == WriteInt32(Len(a)) \o a

\* stream >> QByteArray: length 0xFFFFFFFF is the null array; a length that
\* the stream cannot supply clears the array and sets ReadPastEnd.
ReadByteArray(bytes, st) ==
    LET len == ReadInt32(bytes, st)
    IN  IF len.st.status # "Ok" \/ len.val = 0 - 1 \/ len.val = 0
        THEN [st |-> len.st, val |-> << >>]
        ELSE IF len.val > 0 /\ Len(bytes) - len.st.pos >= len.val
        THEN [st |-> [len.st EXCEPT !.pos = len.st.pos + len.val],
              val |-> SubSeq(bytes, len.st.pos + 1, len.st.pos + len.val)]
        ELSE [st |-> SetStatus([len.st EXCEPT !.pos = Len(bytes)], "ReadPastEnd"),
              val |-> << >>]

\* UTF-16 code units of a string, two bytes each (code units below 256).
RECURSIVE Utf16(_)
Utf16(s) == IF s = << >> THEN << >> ELSE << 0, Head(s) >> \o Utf16(Tail(s))

RECURSIVE FromUtf16(_)
FromUtf16(b) ==
    IF Len(b) < 2 THEN << >> ELSE << b[1] * 256 + b[2] >> \o FromUtf16(Tail(Tail(b)))

\* stream << QString: the byte length, then the UTF-16 data.
WriteString(s) == WriteInt32(2 * Len(s)) \o Utf16(s)

\* stream >> QString: an odd byte length sets ReadCorruptData, a length the
\* stream cannot supply sets ReadPastEnd; both clear the string.
ReadString(bytes, st) ==
    LET len == ReadInt32(bytes, st)
    IN  IF len.st.status # "Ok" \/ len.val = 0 - 1 \/ len.val = 0
        THEN [st |-> len.st, val |-> << >>]
        ELSE IF len.val % 2 = 1
        THEN [st |-> SetStatus(len.st, "ReadCorruptData"), val |-> << >>]
        ELSE IF len.val > 0 /\ Len(bytes) - len.st.pos >= len.val
        THEN [st |-> [len.st EXCEPT !.pos = len.st.pos + len.val],
              val |-> FromUtf16(SubSeq(bytes, len.st.pos + 1, len.st.pos + len.val))]
        ELSE [st |-> SetStatus([len.st EXCEPT !.pos = Len(bytes)], "ReadPastEnd"),
              val |-> << >>]


(***************************************************************************)
(* Containers.                                                             *)
(***************************************************************************)

\* QString::operator<: code units compared in order.
RECURSIVE StringLess(_, _)
StringLess(a, b) ==
    IF b = << >> THEN FALSE
    ELSE IF a = << >> THEN TRUE
    ELSE IF Head(a) # Head(b) THEN Head(a) < Head(b)
    ELSE StringLess(Tail(a), Tail(b))

\* QMap<QString, QString>: the <<key, value>> pairs in increasing key order.
\* soundOverrides[key] = value replaces the value of a key already there.
RECURSIVE MapInsert(_, _, _)
MapInsert(m, key, value) ==
    IF m = << >> THEN << <<key, value>> >>
    ELSE IF Head(m)[1] = key THEN << <<key, value>> >> \o Tail(m)
    ELSE IF StringLess(key, Head(m)[1]) THEN << <<key, value>> >> \o m
    ELSE << Head(m) >> \o MapInsert(Tail(m), key, value)

\* base::flat_set<PeerId>: iteration is in increasing order.
RECURSIVE SortedSeq(_)
SortedSeq(S) ==
    IF S = {} THEN << >>
    ELSE LET least == CHOOSE x \in S : \A y \in S : x <= y
         IN  << least >> \o SortedSeq(S \ {least})

(***************************************************************************)
(* Data::AutoDownload::Full and its own codec (data_auto_download.cpp).    *)
(* A value is a preset number; the encoding is a version and the preset.   *)
(***************************************************************************)

AutoDownloadVersion == 1

AutoDownloadValues == {0, 1, 2}

AutoDownloadSerialize(a) == WriteInt32(AutoDownloadVersion) \o << a >>

\* Full::setFromSerialized: [ok, val]; a failure leaves the value as it was.
AutoDownloadSetFromSerialized(current, bytes) ==
    LET version == ReadInt32(bytes, NewStream)
    IN  IF /\ version.st.status = "Ok"
           /\ version.val = AutoDownloadVersion
           /\ Len(bytes) = 5
           /\ bytes[5] \in AutoDownloadValues
        THEN [ok |-> TRUE, val |-> bytes[5]]
        ELSE [ok |-> FALSE, val |-> current]

(***************************************************************************)
(* AuthSessionSettings::Variables.                                         *)
(***************************************************************************)

\* The in-class initialisers of struct Variables (auth_session.h).
HeaderDefaults ==
    [lastSeenWarningSeen |-> FALSE,
     tabbedSelectorSectionEnabled |-> TRUE,
     tabbedSelectorSectionTooltipShown |-> 0,
     soundOverrides |-> << >>,
     groupStickersSectionHidden |-> {},
     thirdSectionInfoEnabled |-> FALSE,
     smallDialogsList |-> FALSE,
     thirdSectionExtendedBy |-> 0 - 1,
     dialogsWidthRatio |-> (5 * kRatioScale * RatioSubdivision) \div 14,
     thirdColumnWidth |-> 0,
     hadLegacyCallsPeerToPeerNobody |-> FALSE,
     includeMutedCounter |-> TRUE,
     countUnreadMessages |-> TRUE,
     exeLaunchWarning |-> TRUE,
     autoDownload |-> 0,
     archiveCollapsed |-> FALSE,
     notifyAboutPinned |-> TRUE,
     supportFixChatsOrder |-> TRUE,
     supportTemplatesAutocomplete |-> TRUE,
     supportChatsTimeSlice |-> 604800,
     supportAllSearchResults |-> FALSE]

\* Variables::Variables(): the enumerated members, over the initialisers.
DefaultVariables ==
    [sendFilesWay |-> SendFilesWayAlbum,
     selectorTab |-> SelectorTabEmoji,
     floatPlayerColumn |-> ColumnSecond,
     floatPlayerCorner |-> RectPartTopRight,
     sendSubmitWay |-> InputSubmitEnter,
     supportSwitch |-> SwitchSettingsNext] @@ HeaderDefaults

(***************************************************************************)
(* AuthSessionSettings::serialize.                                         *)
(***************************************************************************)

\* A faulty QRound: int(ratio * 1000000), which drops the fraction.
QRoundTruncates(ratio) ==
    IF ratio = RatioUnrepresentable
    THEN {MinInt32, 0 - 1, 0, kRatioScale + 1, MaxInt32}
    ELSE {ratio \div RatioSubdivision}

\* qRound(ratio * 1000000): the nearest integer; where the scaled value does
\* not fit an int the cast is undefined and any int may come out.
QRound(ratio) ==
    IF ratio = RatioUnrepresentable
    THEN {MinInt32, 0 - 1, 0, kRatioScale + 1, MaxInt32}
    ELSE {(2 * ratio + RatioSubdivision) \div (2 * RatioSubdivision)}

\* snap(v, low, high).
Snap(v, low, high) == IF v < low THEN low ELSE IF v > high THEN high ELSE v

RECURSIVE WriteSoundOverrides(_)
WriteSoundOverrides(m) ==
    IF m = << >> THEN << >>
    ELSE WriteString(Head(m)[1]) \o WriteString(Head(m)[2])
         \o WriteSoundOverrides(Tail(m))

RECURSIVE WritePeerIds(_)
WritePeerIds(ids) ==
    IF ids = << >> THEN << >>
    ELSE WriteUInt64(Head(ids)) \o WritePeerIds(Tail(ids))

Bool32(b) == WriteInt32(IF b THEN 1 ELSE 0)

\* A faulty LegacyCallsPeerToPeerSlot: the legacy value is written back.
LegacyCallsPeerToPeerKept(v) ==
    WriteInt32(IF v.hadLegacyCallsPeerToPeerNobody
               THEN kLegacyCallsPeerToPeerNobody ELSE 0)

\* stream << qint32(0); // LEGACY _variables.callsPeerToPeer.current()
LegacyCallsPeerToPeerSlot(v) == WriteInt32(0)

\* The items serialize streams, in order; `rounded` is what qRound returned.
\* Item g of SerializeGroups is field group g of the blob layout.
SerializeGroups(v, rounded) ==
    << WriteInt32(v.selectorTab),
       Bool32(v.lastSeenWarningSeen),
       Bool32(v.tabbedSelectorSectionEnabled),
       WriteInt32(Len(v.soundOverrides)) \o WriteSoundOverrides(v.soundOverrides),
       WriteInt32(v.tabbedSelectorSectionTooltipShown),
       WriteInt32(v.floatPlayerColumn) \o WriteInt32(v.floatPlayerCorner),
       WriteInt32(Cardinality(v.groupStickersSectionHidden))
           \o WritePeerIds(SortedSeq(v.groupStickersSectionHidden)),
       Bool32(v.thirdSectionInfoEnabled) \o Bool32(v.smallDialogsList),
       WriteInt32(Snap(rounded, 0, kRatioScale))
           \o WriteInt32(v.thirdColumnWidth)
           \o WriteInt32(v.thirdSectionExtendedBy),
       WriteInt32(v.sendFilesWay),
       LegacyCallsPeerToPeerSlot(v),
       WriteInt32(v.sendSubmitWay) \o WriteInt32(v.supportSwitch)
           \o Bool32(v.supportFixChatsOrder),
       Bool32(v.supportTemplatesAutocomplete),
       WriteInt32(v.supportChatsTimeSlice),
       Bool32(v.includeMutedCounter) \o Bool32(v.countUnreadMessages),
       Bool32(v.exeLaunchWarning),
       WriteByteArray(AutoDownloadSerialize(v.autoDownload)),
       Bool32(v.supportAllSearchResults),
       Bool32(v.archiveCollapsed),
       Bool32(v.notifyAboutPinned) >>

RECURSIVE Concat(_)
Concat(chunks) ==
    IF chunks = << >> THEN << >> ELSE Head(chunks) \o Concat(Tail(chunks))

\* AuthSessionSettings::serialize, given qRound's result.
Serialize(v, rounded) == Concat(SerializeGroups(v, rounded))

(***************************************************************************)
(* AuthSessionSettings::constructFromSerialized.                           *)
(*                                                                         *)
(* The decoder's position is a record d: the stream d.st, the scratch      *)
(* locals under their own names, the iterations of its two loops, the      *)
(* entries the rest of the blob could hold when each loop started, and     *)
(* d.diverged, set when a loop's exit test i != count cannot become false  *)
(* while i counts up from 0: the loop runs until ++i overflows.            *)
(***************************************************************************)

\* The scratch locals as initialised before the first read.
InitScratch(v) ==
    [st |-> NewStream,
     selectorTab |-> SelectorTabEmoji,
     lastSeenWarningSeen |-> 0,
     tabbedSelectorSectionEnabled |-> 1,
     tabbedSelectorSectionTooltipShown |-> 0,
     floatPlayerColumn |-> ColumnSecond,
     floatPlayerCorner |-> RectPartTopRight,
     soundOverrides |-> << >>,
     groupStickersSectionHidden |-> {},
     thirdSectionInfoEnabled |-> 0,
     smallDialogsList |-> 0,
     dialogsWidthRatio |-> v.dialogsWidthRatio,
     thirdColumnWidth |-> v.thirdColumnWidth,
     thirdSectionExtendedBy |-> v.thirdSectionExtendedBy,
     sendFilesWay |-> v.sendFilesWay,
     legacyCallsPeerToPeer |-> 0,
     sendSubmitWay |-> v.sendSubmitWay,
     supportSwitch |-> v.supportSwitch,
     supportFixChatsOrder |-> IF v.supportFixChatsOrder THEN 1 ELSE 0,
     supportTemplatesAutocomplete |-> IF v.supportTemplatesAutocomplete THEN 1 ELSE 0,
     supportChatsTimeSlice |-> v.supportChatsTimeSlice,
     includeMutedCounter |-> IF v.includeMutedCounter THEN 1 ELSE 0,
     countUnreadMessages |-> IF v.countUnreadMessages THEN 1 ELSE 0,
     exeLaunchWarning |-> IF v.exeLaunchWarning THEN 1 ELSE 0,
     autoDownload |-> << >>,
     supportAllSearchResults |-> IF v.supportAllSearchResults THEN 1 ELSE 0,
     archiveCollapsed |-> IF v.archiveCollapsed THEN 1 ELSE 0,
     notifyAboutPinned |-> IF v.notifyAboutPinned THEN 1 ELSE 0,
     soundIterations |-> 0,
     hiddenIterations |-> 0,
     soundEntries |-> 0,
     hiddenEntries |-> 0,
     diverged |-> FALSE,
     groups |-> {}]

\* The least an entry of the sound overrides takes in the blob: the length
\* words of an empty key and of an empty value.
SoundEntryBytes == 8

\* What a member of groupStickersSectionHidden takes in the blob: a quint64.
HiddenEntryBytes == 8

\* The entries of `size` bytes or more that the blob still holds after `st`.
EntriesLeft(bytes, st, size) ==
    IF st.pos >= Len(bytes) THEN 0 ELSE (Len(bytes) - st.pos) \div size

\* stream >> local, for a qint32 local.
ReadField(bytes, d, local) ==
    LET r == ReadInt32(bytes, d.st)
    IN  [d EXCEPT !.st = r.st, ![local] = r.val]

\* for (auto i = 0; i != count; ++i) { stream >> key >> value;
\*     soundOverrides[key] = value; }
\* Once the stream is exhausted every iteration reads the same empty values,
\* so the iterations left are counted without being unrolled.
RECURSIVE SoundOverridesLoop(_, _, _, _)
SoundOverridesLoop(bytes, d, i, count) ==
    IF i = count THEN d
    ELSE IF count < 0
    THEN [d EXCEPT !.diverged = TRUE, !.soundIterations = MaxInt32]
    ELSE LET key == ReadString(bytes, d.st)
             value == ReadString(bytes, key.st)
             next == [d EXCEPT !.st = value.st,
                               !.soundOverrides = MapInsert(@, key.val, value.val),
                               !.soundIterations = @ + 1]
         IN  IF AtEnd(bytes, d.st)
             THEN [next EXCEPT !.soundIterations = @ + (count - i - 1)]
             ELSE CHOOSE out \in {SoundOverridesLoop(bytes, n, i + 1, count) :
                                      n \in {next}} : TRUE

\* for (auto i = 0; i != count; ++i) { stream >> peerId;
\*     groupStickersSectionHidden.insert(peerId); }
\* Exhausted stream: as in SoundOverridesLoop.
RECURSIVE GroupStickersLoop(_, _, _, _)
GroupStickersLoop(bytes, d, i, count) ==
    IF i = count THEN d
    ELSE IF count < 0
    THEN [d EXCEPT !.diverged = TRUE, !.hiddenIterations = MaxInt32]
    ELSE LET peerId == ReadUInt64(bytes, d.st)
             next == [d EXCEPT !.st = peerId.st,
                               !.groupStickersSectionHidden = @ \cup {peerId.val},
                               !.hiddenIterations = @ + 1]
         IN  IF AtEnd(bytes, d.st)
             THEN [next EXCEPT !.hiddenIterations = @ + (count - i - 1)]
             ELSE CHOOSE out \in {GroupStickersLoop(bytes, n, i + 1, count) :
                                      n \in {next}} : TRUE

\* if (!stream.atEnd()) { <read> }: `read` is the decoder after the reads of
\* field group `group`, which d.groups then records as read.
IfNotAtEnd(bytes, d, group, read) ==
    IF AtEnd(bytes, d.st) \/ d.diverged THEN d
    ELSE [read EXCEPT !.groups = @ \cup {group}]

\* stream >> selectorTab; stream >> lastSeenWarningSeen; (unconditional)
ReadFirst(bytes, d) ==
    LET read == ReadField(bytes, ReadField(bytes, d, "selectorTab"),
                          "lastSeenWarningSeen")
    IN  [read EXCEPT !.groups = @ \cup {1, 2}]

ReadTabbedSelectorSectionEnabled(bytes, d) ==
    IfNotAtEnd(bytes, d, 3,
        ReadField(bytes, d, "tabbedSelectorSectionEnabled"))

ReadSoundOverrides(bytes, d) ==
    IfNotAtEnd(bytes, d, 4,
        LET count == ReadInt32(bytes, d.st)
                 read == [d EXCEPT !.st = count.st,
                                   !.soundEntries =
                                       EntriesLeft(bytes, count.st, SoundEntryBytes)]
             IN  IF count.st.status = "Ok"
                 THEN SoundOverridesLoop(bytes, read, 0, count.val)
                 ELSE read)

ReadTooltipShown(bytes, d) ==
    IfNotAtEnd(bytes, d, 5,
        ReadField(bytes, d, "tabbedSelectorSectionTooltipShown"))

ReadFloatPlayer(bytes, d) ==
    IfNotAtEnd(bytes, d, 6,
        ReadField(bytes, ReadField(bytes, d, "floatPlayerColumn"),
                       "floatPlayerCorner"))

ReadGroupStickersSectionHidden(bytes, d) ==
    IfNotAtEnd(bytes, d, 7,
        LET count == ReadInt32(bytes, d.st)
                 read == [d EXCEPT !.st = count.st,
                                   !.hiddenEntries =
                                       EntriesLeft(bytes, count.st, HiddenEntryBytes)]
             IN  IF count.st.status = "Ok"
                 THEN GroupStickersLoop(bytes, read, 0, count.val)
                 ELSE read)

ReadThirdSection(bytes, d) ==
    IfNotAtEnd(bytes, d, 8,
        ReadField(bytes, ReadField(bytes, d, "thirdSectionInfoEnabled"),
                       "smallDialogsList"))

\* A faulty RatioOfRaw: snap(value / 1000000., 0., 2.).
RatioOfRawWideSnap(value) == Snap(value, 0, 2 * kRatioScale) * RatioSubdivision

\* snap(value / 1000000., 0., 1.), in units of 1/(kRatioScale * RatioSubdivision).
RatioOfRaw(value) == Snap(value, 0, kRatioScale) * RatioSubdivision

ReadDialogsWidth(bytes, d) ==
    IfNotAtEnd(bytes, d, 9,
        LET ratio == ReadInt32(bytes, d.st)
                 width == ReadInt32(bytes, ratio.st)
                 extended == ReadInt32(bytes, width.st)
             IN  [d EXCEPT !.st = extended.st,
                           !.dialogsWidthRatio = RatioOfRaw(ratio.val),
                           !.thirdColumnWidth = width.val,
                           !.thirdSectionExtendedBy = extended.val])

\* A faulty ReadSendFilesWay: the next field is read under the same atEnd
\* test, as if both had been introduced together.
ReadSendFilesWayWithLegacy(bytes, d) ==
    IfNotAtEnd(bytes, d, 10,
        ReadField(bytes, ReadField(bytes, d, "sendFilesWay"),
                  "legacyCallsPeerToPeer"))

ReadSendFilesWay(bytes, d) ==
    IfNotAtEnd(bytes, d, 10,
        ReadField(bytes, d, "sendFilesWay"))

ReadLegacyCallsPeerToPeer(bytes, d) ==
    IfNotAtEnd(bytes, d, 11,
        ReadField(bytes, d, "legacyCallsPeerToPeer"))

ReadSupport(bytes, d) ==
    IfNotAtEnd(bytes, d, 12,
        ReadField(bytes,
                       ReadField(bytes, ReadField(bytes, d, "sendSubmitWay"),
                                 "supportSwitch"),
                       "supportFixChatsOrder"))

ReadSupportTemplatesAutocomplete(bytes, d) ==
    IfNotAtEnd(bytes, d, 13,
        ReadField(bytes, d, "supportTemplatesAutocomplete"))

ReadSupportChatsTimeSlice(bytes, d) ==
    IfNotAtEnd(bytes, d, 14,
        ReadField(bytes, d, "supportChatsTimeSlice"))

ReadCounters(bytes, d) ==
    IfNotAtEnd(bytes, d, 15,
        ReadField(bytes, ReadField(bytes, d, "includeMutedCounter"),
                       "countUnreadMessages"))

ReadExeLaunchWarning(bytes, d) ==
    IfNotAtEnd(bytes, d, 16,
        ReadField(bytes, d, "exeLaunchWarning"))

ReadAutoDownload(bytes, d) ==
    IfNotAtEnd(bytes, d, 17,
        LET r == ReadByteArray(bytes, d.st)
             IN  [d EXCEPT !.st = r.st, !.autoDownload = r.val])

ReadSupportAllSearchResults(bytes, d) ==
    IfNotAtEnd(bytes, d, 18,
        ReadField(bytes, d, "supportAllSearchResults"))

ReadArchiveCollapsed(bytes, d) ==
    IfNotAtEnd(bytes, d, 19,
        ReadField(bytes, d, "archiveCollapsed"))

ReadNotifyAboutPinned(bytes, d) ==
    IfNotAtEnd(bytes, d, 20,
        ReadField(bytes, d, "notifyAboutPinned"))

\* The conditional read of field group `group`.
ReadGroup(bytes, d, group) ==
    CASE group = 3 -> ReadTabbedSelectorSectionEnabled(bytes, d)
      [] group = 4 -> ReadSoundOverrides(bytes, d)
      [] group = 5 -> ReadTooltipShown(bytes, d)
      [] group = 6 -> ReadFloatPlayer(bytes, d)
      [] group = 7 -> ReadGroupStickersSectionHidden(bytes, d)
      [] group = 8 -> ReadThirdSection(bytes, d)
      [] group = 9 -> ReadDialogsWidth(bytes, d)
      [] group = 10 -> ReadSendFilesWay(bytes, d)
      [] group = 11 -> ReadLegacyCallsPeerToPeer(bytes, d)
      [] group = 12 -> ReadSupport(bytes, d)
      [] group = 13 -> ReadSupportTemplatesAutocomplete(bytes, d)
      [] group = 14 -> ReadSupportChatsTimeSlice(bytes, d)
      [] group = 15 -> ReadCounters(bytes, d)
      [] group = 16 -> ReadExeLaunchWarning(bytes, d)
      [] group = 17 -> ReadAutoDownload(bytes, d)
      [] group = 18 -> ReadSupportAllSearchResults(bytes, d)
      [] group = 19 -> ReadArchiveCollapsed(bytes, d)
      [] group = 20 -> ReadNotifyAboutPinned(bytes, d)

\* The conditional reads from field group `group` on, in the order of the
\* code.  (A bound variable holds a value; it is not evaluated again per use.)
RECURSIVE ReadFrom(_, _, _)
ReadFrom(bytes, d, group) ==
    IF group > 20 THEN d
    ELSE CHOOSE out \in {ReadFrom(bytes, ReadGroup(bytes, at, group), group + 1) :
                            at \in {d}} : TRUE

\* The incremental reads: the two unconditional ones, then the groups.
ReadAll(bytes, v) == ReadFrom(bytes, ReadFirst(bytes, InitScratch(v)), 3)

\* A faulty CheckedEnum: the cast value is assigned without the switch.
UncheckedEnum(unchecked, tags, current) == unchecked

\* switch (unchecked) { case <legal tags>: field = unchecked; break; }
CheckedEnum(unchecked, tags, current) ==
    IF unchecked \in tags THEN unchecked ELSE current

\* The assignments after the two failure exits; `autoDownload` is the value
\* the delegated decoder left in _variables.autoDownload.
Assign(v, d, autoDownload) ==
        [selectorTab |-> CheckedEnum(d.selectorTab, SelectorTabTags, v.selectorTab),
         lastSeenWarningSeen |-> (d.lastSeenWarningSeen = 1),
         tabbedSelectorSectionEnabled |-> (d.tabbedSelectorSectionEnabled = 1),
         soundOverrides |-> d.soundOverrides,
         tabbedSelectorSectionTooltipShown |-> d.tabbedSelectorSectionTooltipShown,
         floatPlayerColumn |->
             CheckedEnum(d.floatPlayerColumn, ColumnTags, v.floatPlayerColumn),
         floatPlayerCorner |->
             CheckedEnum(d.floatPlayerCorner, RectPartTags, v.floatPlayerCorner),
         groupStickersSectionHidden |-> d.groupStickersSectionHidden,
         thirdSectionInfoEnabled |-> (d.thirdSectionInfoEnabled # 0),
         smallDialogsList |-> (d.smallDialogsList # 0),
         dialogsWidthRatio |-> d.dialogsWidthRatio,
         thirdColumnWidth |-> d.thirdColumnWidth,
         thirdSectionExtendedBy |-> d.thirdSectionExtendedBy,
         sendFilesWay |-> CheckedEnum(d.sendFilesWay, SendFilesWayTags, v.sendFilesWay),
         sendSubmitWay |->
             CheckedEnum(d.sendSubmitWay, InputSubmitTags, v.sendSubmitWay),
         supportSwitch |->
             CheckedEnum(d.supportSwitch, SwitchSettingsTags, v.supportSwitch),
         supportFixChatsOrder |-> (d.supportFixChatsOrder = 1),
         supportTemplatesAutocomplete |-> (d.supportTemplatesAutocomplete = 1),
         supportChatsTimeSlice |-> d.supportChatsTimeSlice,
         hadLegacyCallsPeerToPeerNobody |->
             (d.legacyCallsPeerToPeer = kLegacyCallsPeerToPeerNobody),
         includeMutedCounter |-> (d.includeMutedCounter = 1),
         countUnreadMessages |-> (d.countUnreadMessages = 1),
         exeLaunchWarning |-> (d.exeLaunchWarning = 1),
         autoDownload |-> autoDownload,
         supportAllSearchResults |-> (d.supportAllSearchResults = 1),
         archiveCollapsed |-> (d.archiveCollapsed = 1),
         notifyAboutPinned |-> (d.notifyAboutPinned = 1)]

\* A faulty DisableTabbedIfInfo: the dependent-field rule is left out.
DisableTabbedNever(v) == v

\* if (_variables.thirdSectionInfoEnabled) {
\*     _variables.tabbedSelectorSectionEnabled = false; }
DisableTabbedIfInfo(v) ==
    IF v.thirdSectionInfoEnabled
    THEN [v EXCEPT !.tabbedSelectorSectionEnabled = FALSE]
    ELSE v

Commit(v, d, autoDownload) == DisableTabbedIfInfo(Assign(v, d, autoDownload))

\* A faulty Finish: the assignments come before the stream's status is
\* looked at.
FinishAssignsFirst(v, d) ==
    LET auto == AutoDownloadSetFromSerialized(v.autoDownload, d.autoDownload)
        assigned == Commit(v, d, v.autoDownload)
    IN  IF d.diverged
        THEN [vars |-> v, exit |-> "diverged", d |-> d]
        ELSE IF d.st.status # "Ok"
        THEN [vars |-> assigned, exit |-> "badData", d |-> d]
        ELSE IF d.autoDownload # << >> /\ ~auto.ok
        THEN [vars |-> assigned, exit |-> "badAutoDownload", d |-> d]
        ELSE [vars |-> Commit(v, d, IF d.autoDownload # << >>
                                    THEN auto.val ELSE v.autoDownload),
              exit |-> "success", d |-> d]

\* The two failure exits and the commit, for the decoder position d reached.
Finish(v, d) ==
    LET auto == AutoDownloadSetFromSerialized(v.autoDownload, d.autoDownload)
    IN  IF d.diverged
        THEN [vars |-> v, exit |-> "diverged", d |-> d]
        ELSE IF d.st.status # "Ok"
        THEN [vars |-> v, exit |-> "badData", d |-> d]
        ELSE IF d.autoDownload # << >> /\ ~auto.ok
        THEN [vars |-> [v EXCEPT !.autoDownload = auto.val],
              exit |-> "badAutoDownload", d |-> d]
        ELSE [vars |-> Commit(v, d, IF d.autoDownload # << >>
                                    THEN auto.val ELSE v.autoDownload),
              exit |-> "success", d |-> d]

\* constructFromSerialized on the record v: the record it leaves and the exit
\* it takes ("empty", "badData", "badAutoDownload", "success", or "diverged"
\* when a loop does not reach its exit test), with the decoder's last position.
ConstructFromSerialized(v, serialized) ==
    IF serialized = << >>
    THEN [vars |-> v, exit |-> "empty", d |-> InitScratch(v)]
    ELSE CHOOSE out \in {Finish(v, d) : d \in {ReadAll(serialized, v)}} : TRUE

(***************************************************************************)
(* State.                                                                  *)
(***************************************************************************)

VARIABLES
    settings,                \* AuthSessionSettings::_variables
    tabbedReplacedWithInfo,  \* AuthSessionSettings::_tabbedReplacedWithInfo
    serialized,              \* the blob in flight or in storage
    pc,                      \* the blob: "live" (none yet), "written", "cut", "tampered"
    saved,                   \* the record the blob was serialized from
    before,                  \* the record constructFromSerialized started on
    exit,                    \* the exit constructFromSerialized took, or "none"
    reads,                   \* the field groups constructFromSerialized read
    tamper,                  \* <<group, offset, value>> overwritten in the blob
    loops,                   \* the iterations of the decoder's two loops
    call,                    \* the last setter call: arguments, state before, outcome
    now,                     \* crl::now(), in ms
    running,                 \* an AuthSession exists
    sessions,                \* the sessions created so far
    saveTimer,               \* AuthSession::_saveDataTimer
    writes,                  \* the calls of Local::writeUserSettings so far
    privacySaves,            \* the calls of api().savePrivacy so far
    pendingSaves,            \* the saveSettingsDelayed calls since the last write
    latestSave,              \* the latest saveSettingsDelayed call: when, what delay
    storedBy,                \* who wrote the stored blob: "legacy" or "serialize"
    restored,                \* the last restore: what it read, whether it migrated
    passcode,                \* Global::LocalPasscode()
    locked,                  \* Core::App().passcodeLocked()
    autoLock,                \* Global::AutoLock(), in seconds
    lastNonIdle,             \* Core::App().lastNonIdleTime(), in ms
    shouldLockAt,            \* AuthSession::_shouldLockAt
    autoLockTimer,           \* AuthSession::_autoLockTimer
    check,                   \* the last checkAutoLock run: its caller and branch
    epoch                    \* flips when the user or the app intervenes

codecVars ==
    << settings, tabbedReplacedWithInfo, serialized, pc, saved, before, exit,
       reads, tamper, loops >>

panelVars == << call >>

saveVars ==
    << now, running, sessions, saveTimer, writes, privacySaves, pendingSaves,
       latestSave, storedBy, restored >>

lockVars ==
    << passcode, locked, autoLock, lastNonIdle, shouldLockAt, autoLockTimer,
       check, epoch >>

vars == << codecVars, panelVars, saveVars, lockVars >>

(***************************************************************************)
(* The records and blobs explored.                                         *)
(***************************************************************************)

\* A record that differs from the default one in every member.
AltVariables ==
    [sendFilesWay |-> 2,
     selectorTab |-> 1,
     floatPlayerColumn |-> 2,
     floatPlayerCorner |-> 64,
     sendSubmitWay |-> 1,
     supportSwitch |-> 2,
     lastSeenWarningSeen |-> TRUE,
     tabbedSelectorSectionEnabled |-> FALSE,
     tabbedSelectorSectionTooltipShown |-> 3,
     soundOverrides |-> << << <<97>>, <<120, 121>> >>, << <<98>>, << >> >> >>,
     groupStickersSectionHidden |-> {5, 70000},
     thirdSectionInfoEnabled |-> TRUE,
     smallDialogsList |-> TRUE,
     thirdSectionExtendedBy |-> 40,
     dialogsWidthRatio |-> kRatioScale * RatioSubdivision,
     thirdColumnWidth |-> 300,
     hadLegacyCallsPeerToPeerNobody |-> TRUE,
     includeMutedCounter |-> FALSE,
     countUnreadMessages |-> FALSE,
     exeLaunchWarning |-> FALSE,
     autoDownload |-> 2,
     archiveCollapsed |-> TRUE,
     notifyAboutPinned |-> FALSE,
     supportFixChatsOrder |-> FALSE,
     supportTemplatesAutocomplete |-> FALSE,
     supportChatsTimeSlice |-> 0 - 86400,
     supportAllSearchResults |-> TRUE]

\* The ratios setDialogsWidthRatio is given: 0, half a millionth, 5/14, one,
\* one and a half, a negative one, and one too large to scale into an int.
RatioInputs ==
    {0,
     RatioSubdivision \div 2,
     (5 * kRatioScale * RatioSubdivision) \div 14,
     kRatioScale * RatioSubdivision,
     (3 * kRatioScale * RatioSubdivision) \div 2,
     0 - 3 * RatioSubdivision,
     RatioUnrepresentable}

\* <<tabbedSelectorSectionEnabled, thirdSectionInfoEnabled>>, never both.
PanelInputs == {<<FALSE, FALSE>>, <<TRUE, FALSE>>, <<FALSE, TRUE>>}

SourceRecords ==
    {[base EXCEPT !.dialogsWidthRatio = ratio,
                  !.tabbedSelectorSectionEnabled = panel[1],
                  !.thirdSectionInfoEnabled = panel[2]] :
        base \in {DefaultVariables, AltVariables},
        ratio \in RatioInputs,
        panel \in PanelInputs}

\* The records constructFromSerialized is run on: a new one, and one that
\* setters have changed (its ratio beyond 1).
TargetRecords ==
    {DefaultVariables,
     [AltVariables EXCEPT !.dialogsWidthRatio = 2 * kRatioScale * RatioSubdivision,
                          !.thirdSectionInfoEnabled = FALSE]}

\* The enumerated members: where the blob holds each, and its legal tags.
EnumFields ==
    {[name |-> "selectorTab", group |-> 1, offset |-> 0, tags |-> SelectorTabTags],
     [name |-> "floatPlayerColumn", group |-> 6, offset |-> 0, tags |-> ColumnTags],
     [name |-> "floatPlayerCorner", group |-> 6, offset |-> 4, tags |-> RectPartTags],
     [name |-> "sendFilesWay", group |-> 10, offset |-> 0, tags |-> SendFilesWayTags],
     [name |-> "sendSubmitWay", group |-> 12, offset |-> 0, tags |-> InputSubmitTags],
     [name |-> "supportSwitch", group |-> 12, offset |-> 4,
      tags |-> SwitchSettingsTags]}

\* The overwrites of one qint32 of a blob explored: <<group, offset, value>>.
Tampers(v) ==
    {<<e.group, e.offset, x>> : e \in EnumFields, x \in {0 - 1, 3}}
    \cup {<<3, 0, x>> : x \in {1, 2}}
    \cup {<<8, 0, x>> : x \in {1, 2}}
    \cup {<<4, 0, x>> : x \in {0 - 1, Len(v.soundOverrides) + 1, MaxInt32}}
    \cup {<<7, 0, x>> : x \in {0 - 1, Cardinality(v.groupStickersSectionHidden) + 2,
                               MaxInt32}}
    \cup {<<9, 0, x>> : x \in {0 - 1, MinInt32, kRatioScale + 1,
                               (3 * kRatioScale) \div 2, MaxInt32}}
    \cup {<<11, 0, x>> : x \in {kLegacyCallsPeerToPeerNobody, 1}}
    \cup {<<17, 4, AutoDownloadVersion + 1>>}

\* `chunk` with the four bytes after `offset` replaced by the qint32 `value`.
Overwrite(chunk, offset, value) ==
    SubSeq(chunk, 1, offset) \o WriteInt32(value)
        \o SubSeq(chunk, offset + 5, Len(chunk))

\* The blob made of the first k field groups.
Prefix(groups, k) == Concat(SubSeq(groups, 1, k))

(***************************************************************************)
(* The parts of the state a specification leaves alone.                    *)
(***************************************************************************)

\* The iterations of the two loops of a decode, and the entries the rest of
\* the blob could hold when each started.
Loops(d) ==
    [sound |-> d.soundIterations, soundEntries |-> d.soundEntries,
     hidden |-> d.hiddenIterations, hiddenEntries |-> d.hiddenEntries]

\* No decode has run.
NoLoops == [sound |-> 0, soundEntries |-> 0, hidden |-> 0, hiddenEntries |-> 0]

\* No setter has been called.
NoCall ==
    call = [op |-> "none", arg |-> FALSE, tabbed |-> FALSE, info |-> FALSE,
            replaced |-> FALSE, depth |-> 0, returned |-> TRUE, fired |-> << >>]

\* base::Timer after construction or cancel().
TimerIdle == [active |-> FALSE, deadline |-> 0]

\* Nothing was restored, nothing is to be saved.
NoSave ==
    /\ sessions = 0
    /\ saveTimer = TimerIdle
    /\ writes = 0
    /\ privacySaves = 0
    /\ pendingSaves = 0
    /\ latestSave = [at |-> 0, delay |-> 0]
    /\ storedBy = "legacy"
    /\ restored = [ran |-> FALSE, from |-> "legacy", exit |-> "none",
                   legacy |-> 0, migrated |-> FALSE]

\* No AuthSession exists, none has existed.
NoSession == now = 0 /\ running = FALSE /\ NoSave

\* No passcode, no auto-lock timer.
NoLock ==
    /\ passcode = FALSE
    /\ locked = FALSE
    /\ autoLock = 0
    /\ lastNonIdle = 0
    /\ shouldLockAt = 0
    /\ autoLockTimer = TimerIdle
    /\ check = [flip |-> FALSE, by |-> "none", branch |-> "none", late |-> FALSE]
    /\ epoch = FALSE

(***************************************************************************)
(* Actions of the codec.                                                   *)
(***************************************************************************)

CodecInit ==
    /\ settings \in SourceRecords
    /\ tabbedReplacedWithInfo = FALSE
    /\ serialized = << >>
    /\ pc = "live"
    /\ saved = settings
    /\ before = settings
    /\ exit = "none"
    /\ reads = {}
    /\ loops = NoLoops
    /\ tamper = << >>

\* Local::writeUserSettings stores settings().serialize().
SerializeSettings ==
    /\ pc = "live"
    /\ \E rounded \in QRound(settings.dialogsWidthRatio) :
           serialized' = Serialize(settings, rounded)
    /\ saved' = settings
    /\ pc' = "written"
    /\ UNCHANGED << settings, tabbedReplacedWithInfo, before, exit, reads, loops, tamper >>
    /\ UNCHANGED << panelVars, saveVars, lockVars >>

\* The stored blob is that of an older version, or is damaged: it ends early.
Truncate ==
    /\ pc = "written"
    /\ exit = "none"
    /\ \E n \in 0 .. (Len(serialized) - 1) : serialized' = SubSeq(serialized, 1, n)
    /\ pc' = "cut"
    /\ UNCHANGED << settings, tabbedReplacedWithInfo, saved, before, exit, reads, loops,
                    tamper >>
    /\ UNCHANGED << panelVars, saveVars, lockVars >>

\* The stored blob has another writer: one qint32 of it holds another value.
Tamper ==
    /\ pc = "written"
    /\ exit = "none"
    /\ \E t \in Tampers(saved), rounded \in QRound(saved.dialogsWidthRatio) :
           LET groups == SerializeGroups(saved, rounded)
           IN  /\ serialized = Concat(groups)
               /\ serialized' =
                      Concat([groups EXCEPT ![t[1]] = Overwrite(@, t[2], t[3])])
               /\ tamper' = t
    /\ pc' = "tampered"
    /\ UNCHANGED << settings, tabbedReplacedWithInfo, saved, before, exit, reads, loops >>
    /\ UNCHANGED << panelVars, saveVars, lockVars >>

\* What a run of constructFromSerialized can come to. A loop that ran until
\* ++i overflowed has undefined behaviour: it never ends, or i wraps, meets
\* the negative count, and the exhausted stream takes the failure exit.
Outcomes(result) ==
    IF result.exit = "diverged"
    THEN {result, [result EXCEPT !.exit = "badData"]}
    ELSE {result}

\* constructFromSerialized(serialized) on a record `target`.
Restore ==
    /\ pc \in {"written", "cut", "tampered"}
    /\ exit = "none"
    /\ \E target \in TargetRecords :
           \E result \in Outcomes(ConstructFromSerialized(target, serialized)) :
               /\ before' = target
               /\ settings' = result.vars
               /\ exit' = result.exit
               /\ reads' = result.d.groups
               /\ loops' = Loops(result.d)
    /\ UNCHANGED << tabbedReplacedWithInfo, serialized, pc, saved, tamper >>
    /\ UNCHANGED << panelVars, saveVars, lockVars >>

Next == SerializeSettings \/ Truncate \/ Tamper \/ Restore

Init == CodecInit /\ NoCall /\ NoSession /\ NoLock

Spec == Init /\ [][Next]_vars

(***************************************************************************)
(* The setters of AuthSessionSettings.                                     *)
(*                                                                         *)
(* A setter works on a frame: the record, _tabbedReplacedWithInfo, the     *)
(* events fired, the deepest nesting of setter calls reached, and whether  *)
(* the call returned within MaxCallDepth nested calls.                     *)
(***************************************************************************)

Frame(v, replaced) ==
    [vars |-> v, replaced |-> replaced, fired |-> << >>, depth |-> 0,
     returned |-> TRUE]

\* Entering a setter at nesting `level`.
Enter(o, level) == [o EXCEPT !.depth = IF level > @ THEN level ELSE @]

SetTabbedReplacedWithInfo(o, enabled) ==
    IF o.replaced # enabled
    THEN [o EXCEPT !.replaced = enabled,
                   !.fired = Append(@, <<"tabbedReplacedWithInfo", enabled>>)]
    ELSE o

RECURSIVE SetTabbedSelectorSectionEnabled(_, _, _)
RECURSIVE SetThirdSectionInfoEnabled(_, _, _)

SetTabbedSelectorSectionEnabled(o, enabled, level) ==
    IF level > MaxCallDepth
    THEN [o EXCEPT !.returned = FALSE]
    ELSE LET assigned ==
                 [Enter(o, level) EXCEPT !.vars.tabbedSelectorSectionEnabled = enabled]
             nested ==
                 IF enabled
                 THEN SetThirdSectionInfoEnabled(assigned, FALSE, level + 1)
                 ELSE assigned
         IN  SetTabbedReplacedWithInfo(nested, FALSE)

\* setThirdSectionInfoEnabled without its call of
\* setTabbedSelectorSectionEnabled(false).
SetThirdSectionInfoEnabledAlone(o, enabled, level) ==
    IF o.vars.thirdSectionInfoEnabled # enabled
    THEN LET assigned ==
                 [Enter(o, level) EXCEPT !.vars.thirdSectionInfoEnabled = enabled]
             reset == SetTabbedReplacedWithInfo(assigned, FALSE)
         IN  [reset EXCEPT !.fired = Append(@, <<"thirdSectionInfoEnabled", enabled>>)]
    ELSE Enter(o, level)

SetThirdSectionInfoEnabled(o, enabled, level) ==
    IF level > MaxCallDepth
    THEN [o EXCEPT !.returned = FALSE]
    ELSE IF o.vars.thirdSectionInfoEnabled # enabled
    THEN LET assigned ==
                 [Enter(o, level) EXCEPT !.vars.thirdSectionInfoEnabled = enabled]
             nested ==
                 IF enabled
                 THEN SetTabbedSelectorSectionEnabled(assigned, FALSE, level + 1)
                 ELSE assigned
             reset == SetTabbedReplacedWithInfo(nested, FALSE)
         IN  [reset EXCEPT !.fired = Append(@, <<"thirdSectionInfoEnabled", enabled>>)]
    ELSE Enter(o, level)

\* A setter call ends: the frame becomes the state, the call is recorded.
Return(op, arg, o) ==
    /\ settings' = o.vars
    /\ tabbedReplacedWithInfo' = o.replaced
    /\ call' = [op |-> op, arg |-> arg,
                tabbed |-> settings.tabbedSelectorSectionEnabled,
                info |-> settings.thirdSectionInfoEnabled,
                replaced |-> tabbedReplacedWithInfo,
                depth |-> o.depth, returned |-> o.returned, fired |-> o.fired]
    /\ UNCHANGED << serialized, pc, saved, before, exit, reads, loops, tamper >>
    /\ UNCHANGED << saveVars, lockVars >>

\* A setter that assigns one member.
Assigned(op, field, value) ==
    /\ settings' = [settings EXCEPT ![field] = value]
    /\ call' = [op |-> op, arg |-> value,
                tabbed |-> settings.tabbedSelectorSectionEnabled,
                info |-> settings.thirdSectionInfoEnabled,
                replaced |-> tabbedReplacedWithInfo,
                depth |-> 1, returned |-> TRUE, fired |-> << >>]
    /\ UNCHANGED << tabbedReplacedWithInfo, serialized, pc, saved, before, exit,
                    reads, loops, tamper >>
    /\ UNCHANGED << saveVars, lockVars >>

CallSetTabbedSelectorSectionEnabled ==
    \E enabled \in BOOLEAN :
        Return("setTabbedSelectorSectionEnabled", enabled,
               SetTabbedSelectorSectionEnabled(
                   Frame(settings, tabbedReplacedWithInfo), enabled, 1))

CallSetThirdSectionInfoEnabled ==
    \E enabled \in BOOLEAN :
        Return("setThirdSectionInfoEnabled", enabled,
               SetThirdSectionInfoEnabled(
                   Frame(settings, tabbedReplacedWithInfo), enabled, 1))

CallSetTabbedReplacedWithInfo ==
    \E enabled \in BOOLEAN :
        Return("setTabbedReplacedWithInfo", enabled,
               SetTabbedReplacedWithInfo(
                   Enter(Frame(settings, tabbedReplacedWithInfo), 1), enabled))

CallSetSupportChatsTimeSlice ==
    \E slice \in {DefaultVariables.supportChatsTimeSlice,
                  AltVariables.supportChatsTimeSlice} :
        Assigned("setSupportChatsTimeSlice", "supportChatsTimeSlice", slice)

CallSetSupportAllSearchResults ==
    \E all \in BOOLEAN :
        Assigned("setSupportAllSearchResults", "supportAllSearchResults", all)

CallSetDialogsWidthRatio ==
    \E ratio \in RatioInputs :
        Assigned("setDialogsWidthRatio", "dialogsWidthRatio", ratio)

CallSetThirdColumnWidth ==
    \E width \in {DefaultVariables.thirdColumnWidth, AltVariables.thirdColumnWidth} :
        Assigned("setThirdColumnWidth", "thirdColumnWidth", width)

CallSetArchiveCollapsed ==
    \E collapsed \in BOOLEAN :
        Assigned("setArchiveCollapsed", "archiveCollapsed", collapsed)

CallSetNotifyAboutPinned ==
    \E notify \in BOOLEAN :
        Assigned("setNotifyAboutPinned", "notifyAboutPinned", notify)

\* A record just constructed or just decoded, no setter called yet.
PanelsInit ==
    /\ settings \in {DefaultVariables, AltVariables}
    /\ tabbedReplacedWithInfo = FALSE
    /\ serialized = << >>
    /\ pc = "live"
    /\ saved = settings
    /\ before = settings
    /\ exit = "none"
    /\ reads = {}
    /\ loops = NoLoops
    /\ tamper = << >>
    /\ NoCall /\ NoSession /\ NoLock

PanelsNext ==
    \/ CallSetTabbedSelectorSectionEnabled
    \/ CallSetThirdSectionInfoEnabled
    \/ CallSetTabbedReplacedWithInfo
    \/ CallSetSupportChatsTimeSlice
    \/ CallSetSupportAllSearchResults
    \/ CallSetDialogsWidthRatio
    \/ CallSetThirdColumnWidth
    \/ CallSetArchiveCollapsed
    \/ CallSetNotifyAboutPinned

SpecPanels == PanelsInit /\ [][PanelsNext]_vars

(***************************************************************************)
(* base::Timer, single shot.                                               *)
(***************************************************************************)

\* Timer::callOnce(delay) at time `at`: any earlier shot is dropped.
CallOnce(at, delay) == [active |-> TRUE, deadline |-> at + delay]

\* The single shot is due: the callback runs, the timer is idle again.
Due(timer, at) == timer.active /\ at >= timer.deadline

\* Timer::remainingTime(): -1 when idle, never negative when active.
RemainingTime(timer, at) ==
    IF ~timer.active THEN 0 - 1
    ELSE IF timer.deadline > at THEN timer.deadline - at ELSE 0

(***************************************************************************)
(* The session: restoring the stored settings and saving them delayed.     *)
(***************************************************************************)

\* AuthSession::kDefaultSaveDelay, the default argument of saveSettingsDelayed.
kDefaultSaveDelay == 1000

\* The delays saveSettingsDelayed is called with.
SaveDelays == {kDefaultSaveDelay, 2 * kDefaultSaveDelay}

\* _saveDataTimer after saveSettingsDelayed(delay), had it not restarted a
\* timer that is already running.
SaveSettingsDelayedKeepsTimer(timer, at, delay) ==
    IF timer.active THEN timer ELSE CallOnce(at, delay)

\* _saveDataTimer after saveSettingsDelayed(delay) at time `at`.
SaveSettingsDelayed(timer, at, delay) == CallOnce(at, delay)

\* moveSettingsFrom(other) had it tested the legacy value of the record the
\* session held before.
MoveSettingsFromStale(current, other) ==
    [settings |-> other, migrate |-> current.hadLegacyCallsPeerToPeerNobody]

\* moveSettingsFrom(other): the session's record becomes `other`; the
\* migration runs when that record had the legacy value.
MoveSettingsFrom(current, other) ==
    [settings |-> other, migrate |-> other.hadLegacyCallsPeerToPeerNobody]

\* The blobs found in storage when the first session starts: none, or one of
\* a version that wrote the calls-peer-to-peer setting (0, 1, or 4 for
\* "nobody"), ending after group 10, 11, 14 or 20, or two bytes short of it.
LegacyBlobs ==
    {<< >>}
    \cup {Prefix([groups EXCEPT ![11] = WriteInt32(x)], k) :
             groups \in {SerializeGroups(r, rounded) :
                            r \in {DefaultVariables, AltVariables},
                            rounded \in QRound(DefaultVariables.dialogsWidthRatio)},
             x \in {0, 1, kLegacyCallsPeerToPeerNobody},
             k \in {10, 11, 14, 20}}
    \cup {SubSeq(blob, 1, Len(blob) - 2) :
             blob \in {Prefix([groups EXCEPT ![11] =
                                  WriteInt32(kLegacyCallsPeerToPeerNobody)], k) :
                          groups \in {SerializeGroups(DefaultVariables, rounded) :
                              rounded \in QRound(DefaultVariables.dialogsWidthRatio)},
                          k \in {11, 14}}}

SessionInit ==
    /\ settings = DefaultVariables
    /\ tabbedReplacedWithInfo = FALSE
    /\ serialized \in LegacyBlobs
    /\ pc = "written"
    /\ saved = settings
    /\ before = settings
    /\ exit = "none"
    /\ reads = {}
    /\ loops = NoLoops
    /\ tamper = << >>
    /\ NoCall /\ NoSession /\ NoLock

\* A session is created and the stored settings are restored: the blob is
\* decoded into a new AuthSessionSettings, which moveSettingsFrom takes over.
StartSession ==
    /\ ~running
    /\ sessions < MaxSessions
    /\ now + kDefaultSaveDelay <= MaxSessionTime
    /\ \E result \in {ConstructFromSerialized(DefaultVariables, serialized)} :
         \E moved \in {MoveSettingsFrom(settings, result.vars)} :
           /\ settings' = moved.settings
           /\ before' = DefaultVariables
           /\ exit' = result.exit
           /\ reads' = result.d.groups
           /\ loops' = Loops(result.d)
           /\ restored' = [ran |-> TRUE, from |-> storedBy, exit |-> result.exit,
                           legacy |-> result.d.legacyCallsPeerToPeer,
                           migrated |-> moved.migrate]
           /\ privacySaves' = IF moved.migrate THEN privacySaves + 1 ELSE privacySaves
           /\ saveTimer' = IF moved.migrate
                           THEN SaveSettingsDelayed(TimerIdle, now, kDefaultSaveDelay)
                           ELSE TimerIdle
           /\ pendingSaves' = IF moved.migrate THEN 1 ELSE 0
           /\ latestSave' = IF moved.migrate
                            THEN [at |-> now, delay |-> kDefaultSaveDelay]
                            ELSE latestSave
    /\ running' = TRUE
    /\ sessions' = sessions + 1
    /\ UNCHANGED << tabbedReplacedWithInfo, serialized, pc, saved, tamper, now,
                    writes, storedBy >>
    /\ UNCHANGED << panelVars, lockVars >>

\* Auth().saveSettingsDelayed(delay).
CallSaveSettingsDelayed ==
    /\ running
    /\ pendingSaves < MaxPendingSaves
    /\ \E delay \in SaveDelays :
           /\ now + delay <= MaxSessionTime
           /\ saveTimer' = SaveSettingsDelayed(saveTimer, now, delay)
           /\ latestSave' = [at |-> now, delay |-> delay]
    /\ pendingSaves' = pendingSaves + 1
    /\ UNCHANGED << codecVars, panelVars, lockVars, now, running, sessions, writes,
                    privacySaves, storedBy, restored >>

\* The save timer fires: Local::writeUserSettings() stores
\* Auth().settings().serialize().
SaveTimerFires ==
    /\ running
    /\ Due(saveTimer, now)
    /\ \E rounded \in QRound(settings.dialogsWidthRatio) :
           serialized' = Serialize(settings, rounded)
    /\ saved' = settings
    /\ storedBy' = "serialize"
    /\ writes' = writes + 1
    /\ saveTimer' = TimerIdle
    /\ pendingSaves' = 0
    /\ UNCHANGED << settings, tabbedReplacedWithInfo, pc, before, exit, reads, loops,
                    tamper, now, running, sessions, privacySaves, latestSave,
                    restored >>
    /\ UNCHANGED << panelVars, lockVars >>

\* Auth().settings().setArchiveCollapsed(!archiveCollapsed()).
SessionSetArchiveCollapsed ==
    /\ running
    /\ settings' = [settings EXCEPT !.archiveCollapsed = ~@]
    /\ UNCHANGED << tabbedReplacedWithInfo, serialized, pc, saved, before, exit,
                    reads, loops, tamper >>
    /\ UNCHANGED << panelVars, saveVars, lockVars >>

\* The session is destroyed, its timer with it.
EndSession ==
    /\ running
    /\ running' = FALSE
    /\ saveTimer' = TimerIdle
    /\ pendingSaves' = 0
    /\ UNCHANGED << codecVars, panelVars, lockVars, now, sessions, writes,
                    privacySaves, latestSave, storedBy, restored >>

\* Time passes.
SessionTick ==
    /\ now < MaxSessionTime
    /\ now' = IF now + TickMs > MaxSessionTime THEN MaxSessionTime ELSE now + TickMs
    /\ UNCHANGED << codecVars, panelVars, lockVars, running, sessions, saveTimer,
                    writes, privacySaves, pendingSaves, latestSave, storedBy,
                    restored >>

SessionNext ==
    \/ StartSession
    \/ CallSaveSettingsDelayed
    \/ SaveTimerFires
    \/ SessionSetArchiveCollapsed
    \/ EndSession
    \/ SessionTick

\* A SaveTimerFires step, by what tells it from every other step: the save
\* timer was due and a write is counted.
SaveTimerFired == running /\ Due(saveTimer, now) /\ writes' = writes + 1

\* The event loop runs the callback of a due timer (weak fairness of
\* SaveTimerFires, stated on SaveTimerFired), and time passes.
SpecSession ==
    /\ SessionInit
    /\ [][SessionNext]_vars
    /\ WF_writes(SaveTimerFired)
    /\ WF_vars(SessionTick)

(***************************************************************************)
(* The auto-lock.                                                          *)
(***************************************************************************)

\* Global::AutoLock() * 1000LL
MsPerSecond == 1000

\* The values of Global::AutoLock() explored, in seconds.
AutoLockSeconds == {1, 2}

\* The times checkAutoLockIn is called with.
CheckInTimes == {TickMs, 3 * TickMs}

\* checkAutoLock() had it not tested Core::App().passcodeLocked().
CheckAutoLockWhenLocked(pass, isLocked, at, idleSince, seconds, should) ==
    LET shouldLockInMs == seconds * MsPerSecond
        checkTimeMs == at - idleSince
    IN  IF ~pass
        THEN [shouldLockAt |-> 0, timer |-> TimerIdle, locked |-> isLocked,
              branch |-> "cancel", late |-> FALSE]
        ELSE IF \/ checkTimeMs >= shouldLockInMs
                \/ (should > 0 /\ at > should + kAutoLockTimeoutLateMs)
        THEN [shouldLockAt |-> 0, timer |-> TimerIdle, locked |-> TRUE,
              branch |-> "lock", late |-> checkTimeMs < shouldLockInMs]
        ELSE [shouldLockAt |-> at + (shouldLockInMs - checkTimeMs),
              timer |-> CallOnce(at, shouldLockInMs - checkTimeMs),
              locked |-> isLocked, branch |-> "arm", late |-> FALSE]

\* checkAutoLock() at time `at`: what it leaves in _shouldLockAt, in
\* _autoLockTimer and in the lock, and the branch taken. lockByPasscode()
\* locks, and the passcodeLockChanges handler zeroes _shouldLockAt.
CheckAutoLock(pass, isLocked, at, idleSince, seconds, should) ==
    LET shouldLockInMs == seconds * MsPerSecond
        checkTimeMs == at - idleSince
    IN  IF ~pass \/ isLocked
        THEN [shouldLockAt |-> 0, timer |-> TimerIdle, locked |-> isLocked,
              branch |-> "cancel", late |-> FALSE]
        ELSE IF \/ checkTimeMs >= shouldLockInMs
                \/ (should > 0 /\ at > should + kAutoLockTimeoutLateMs)
        THEN [shouldLockAt |-> 0, timer |-> TimerIdle, locked |-> TRUE,
              branch |-> "lock", late |-> checkTimeMs < shouldLockInMs]
        ELSE [shouldLockAt |-> at + (shouldLockInMs - checkTimeMs),
              timer |-> CallOnce(at, shouldLockInMs - checkTimeMs),
              locked |-> isLocked, branch |-> "arm", late |-> FALSE]

\* A run of checkAutoLock ends: its results become the state.
Checked(by, out) ==
    /\ shouldLockAt' = out.shouldLockAt
    /\ autoLockTimer' = out.timer
    /\ locked' = out.locked
    /\ check' = [flip |-> ~check.flip, by |-> by, branch |-> out.branch,
                 late |-> out.late]

\* A session exists; a passcode may be set; the user was last active now.
LockInit ==
    /\ settings = DefaultVariables
    /\ tabbedReplacedWithInfo = FALSE
    /\ serialized = << >>
    /\ pc = "live"
    /\ saved = settings
    /\ before = settings
    /\ exit = "none"
    /\ reads = {}
    /\ loops = NoLoops
    /\ tamper = << >>
    /\ NoCall
    /\ now = 0 /\ running = TRUE /\ NoSave
    /\ passcode \in BOOLEAN
    /\ locked = FALSE
    /\ autoLock \in AutoLockSeconds
    /\ lastNonIdle = 0
    /\ shouldLockAt = 0
    /\ autoLockTimer = TimerIdle
    /\ check = [flip |-> FALSE, by |-> "none", branch |-> "none", late |-> FALSE]
    /\ epoch = FALSE

\* _autoLockTimer fires: its callback is checkAutoLock().
AutoLockTimerFires ==
    /\ Due(autoLockTimer, now)
    /\ Checked("timer",
               CheckAutoLock(passcode, locked, now, lastNonIdle, autoLock,
                             shouldLockAt))
    /\ UNCHANGED << codecVars, panelVars, saveVars, passcode, autoLock,
                    lastNonIdle, epoch >>

\* The user sets, changes or removes the passcode: localPasscodeChanged().
LocalPasscodeChanged ==
    /\ ~locked
    /\ \E pass \in BOOLEAN :
           /\ passcode' = pass
           /\ Checked("localPasscodeChanged",
                      CheckAutoLock(pass, locked, now, lastNonIdle, autoLock, 0))
    /\ epoch' = ~epoch
    /\ UNCHANGED << codecVars, panelVars, saveVars, autoLock, lastNonIdle >>

\* checkAutoLockIn(time).
CallCheckAutoLockIn ==
    /\ \E time \in CheckInTimes :
           /\ now + time <= MaxLockTime
           /\ LET remain == RemainingTime(autoLockTimer, now)
              IN  IF autoLockTimer.active /\ remain > 0 /\ remain <= time
                  THEN UNCHANGED << autoLockTimer, epoch >>
                  ELSE /\ autoLockTimer' = CallOnce(now, time)
                       /\ epoch' = ~epoch
    /\ UNCHANGED << codecVars, panelVars, saveVars, passcode, locked, autoLock,
                    lastNonIdle, shouldLockAt, check >>

\* The user does something: Core::App() records the time.
UserActivity ==
    /\ lastNonIdle # now
    /\ now + autoLock * MsPerSecond <= MaxLockTime
    /\ lastNonIdle' = now
    /\ epoch' = ~epoch
    /\ UNCHANGED << codecVars, panelVars, saveVars, passcode, locked, autoLock,
                    shouldLockAt, autoLockTimer, check >>

\* The user locks the app: passcodeLockChanges fires, the handler zeroes
\* _shouldLockAt.
PasscodeLock ==
    /\ passcode /\ ~locked
    /\ locked' = TRUE
    /\ shouldLockAt' = 0
    /\ epoch' = ~epoch
    /\ UNCHANGED << codecVars, panelVars, saveVars, passcode, autoLock,
                    lastNonIdle, autoLockTimer, check >>

\* The user unlocks the app: passcodeLockChanges fires, the handler zeroes
\* _shouldLockAt.
PasscodeUnlock ==
    /\ locked
    /\ locked' = FALSE
    /\ shouldLockAt' = 0
    /\ epoch' = ~epoch
    /\ UNCHANGED << codecVars, panelVars, saveVars, passcode, autoLock,
                    lastNonIdle, autoLockTimer, check >>

\* Time passes.
LockTick ==
    /\ now < MaxLockTime
    /\ now' = IF now + TickMs > MaxLockTime THEN MaxLockTime ELSE now + TickMs
    /\ UNCHANGED << codecVars, panelVars, lockVars, running, sessions, saveTimer,
                    writes, privacySaves, pendingSaves, latestSave, storedBy,
                    restored >>

LockNext ==
    \/ AutoLockTimerFires
    \/ LocalPasscodeChanged
    \/ CallCheckAutoLockIn
    \/ UserActivity
    \/ PasscodeLock
    \/ PasscodeUnlock
    \/ LockTick

\* The event loop runs the callback of a due timer, and time passes.
SpecLock ==
    /\ LockInit
    /\ [][LockNext]_vars
    /\ WF_vars(AutoLockTimerFires)
    /\ WF_vars(LockTick)

(***************************************************************************)
(* Properties of the codec.                                                *)
(***************************************************************************)

AllFields == DOMAIN DefaultVariables

\* The members each field group of the blob layout carries.
GroupFields ==
    << {"selectorTab"},
       {"lastSeenWarningSeen"},
       {"tabbedSelectorSectionEnabled"},
       {"soundOverrides"},
       {"tabbedSelectorSectionTooltipShown"},
       {"floatPlayerColumn", "floatPlayerCorner"},
       {"groupStickersSectionHidden"},
       {"thirdSectionInfoEnabled", "smallDialogsList"},
       {"dialogsWidthRatio", "thirdColumnWidth", "thirdSectionExtendedBy"},
       {"sendFilesWay"},
       {"hadLegacyCallsPeerToPeerNobody"},
       {"sendSubmitWay", "supportSwitch", "supportFixChatsOrder"},
       {"supportTemplatesAutocomplete"},
       {"supportChatsTimeSlice"},
       {"includeMutedCounter", "countUnreadMessages"},
       {"exeLaunchWarning"},
       {"autoDownload"},
       {"supportAllSearchResults"},
       {"archiveCollapsed"},
       {"notifyAboutPinned"} >>

GroupOf(f) == CHOOSE g \in 1 .. 20 : f \in GroupFields[g]

\* What a member absent from the blob decodes to where the decoder starts
\* from a literal and not from the record's own value.
LiteralDefaults ==
    [selectorTab |-> 0,
     lastSeenWarningSeen |-> FALSE,
     tabbedSelectorSectionEnabled |-> TRUE,
     soundOverrides |-> << >>,
     tabbedSelectorSectionTooltipShown |-> 0,
     floatPlayerColumn |-> 1,
     floatPlayerCorner |-> 4,
     groupStickersSectionHidden |-> {},
     thirdSectionInfoEnabled |-> FALSE,
     smallDialogsList |-> FALSE,
     hadLegacyCallsPeerToPeerNobody |-> FALSE]

One == kRatioScale * RatioSubdivision

\* A valid record: the ratio in [0,1], the two panels not both enabled.
Valid(r) ==
    /\ r.dialogsWidthRatio \in 0 .. One
    /\ ~(r.tabbedSelectorSectionEnabled /\ r.thirdSectionInfoEnabled)

Distance(a, b) == IF a >= b THEN a - b ELSE b - a

\* `out` is `in` rounded to a whole number of millionths.
RatioRounded(out, in) ==
    /\ out % RatioSubdivision = 0
    /\ 2 * Distance(out, in) <= RatioSubdivision

\* Member f of `out` is what the blob of the record r carries for it.
FieldMatches(f, out, r) ==
    IF f = "dialogsWidthRatio" THEN RatioRounded(out[f], r[f])
    ELSE IF f = "hadLegacyCallsPeerToPeerNobody" THEN out[f] = FALSE
    ELSE out[f] = r[f]

Decoded == exit # "none"

\* The blob decoded is serialize(saved) cut right after field group k.
AtGroup(k) ==
    /\ Decoded
    /\ tamper = << >>
    /\ \E rounded \in QRound(saved.dialogsWidthRatio) :
           serialized = Prefix(SerializeGroups(saved, rounded), k)

\* C1, as stated: decoding the blob of a valid record r gives a record equal
\* to r in every member but the legacy one.
C1_RoundTripExact ==
    (Decoded /\ pc = "written" /\ Valid(saved)) =>
        /\ exit = "success"
        /\ \A f \in AllFields \ {"hadLegacyCallsPeerToPeerNobody"} :
               settings[f] = saved[f]

\* C1, amended: decoding the blob of a valid record r succeeds and gives a
\* record equal to r in every member, except that the legacy member is false
\* and dialogsWidthRatio is r's ratio rounded to the nearest millionth.
C1_RoundTrip ==
    (Decoded /\ pc = "written" /\ Valid(saved)) =>
        /\ exit = "success"
        /\ \A f \in AllFields : FieldMatches(f, settings, saved)

\* A round trip of a record whose ratio is no whole number of millionths and
\* whose legacy member was set, into a record that differs from it.
C1_Witness ==
    /\ Decoded /\ pc = "written" /\ Valid(saved)
    /\ saved.dialogsWidthRatio % RatioSubdivision # 0
    /\ saved.hadLegacyCallsPeerToPeerNobody
    /\ before = DefaultVariables
    /\ exit = "success"
    /\ settings.soundOverrides = saved.soundOverrides
    /\ settings.dialogsWidthRatio # saved.dialogsWidthRatio

\* C2, as stated: for every k in 1..20 the blob of a valid record r cut after
\* field group k decodes successfully, into a new record, to r's members for
\* the groups up to k and to the defaults for the others.  (Stated for the
\* records whose ratio is a whole number of millionths, which the rounding
\* of C1 leaves as they are.)
C2_EveryPrefixDecodes ==
    \A k \in 1 .. 20 :
        (/\ AtGroup(k) /\ Valid(saved) /\ before = DefaultVariables
         /\ saved.dialogsWidthRatio % RatioSubdivision = 0) =>
            /\ exit = "success"
            /\ \A f \in AllFields \ {"hadLegacyCallsPeerToPeerNobody"} :
                   settings[f] = IF GroupOf(f) <= k THEN saved[f]
                                 ELSE DefaultVariables[f]

\* C2, amended: for every k in 2..20 the blob of a valid record r cut after
\* field group k decodes successfully; the members of the groups up to k are
\* r's (the ratio rounded to the nearest millionth, the legacy member false);
\* each other member is the decoder's initial scratch value: the literal
\* default for the members of groups 3..8 and the legacy member, and the
\* value the record had before the decode for the members of groups 9..20.
C2_PrefixDecodes ==
    \A k \in 2 .. 20 :
        (AtGroup(k) /\ Valid(saved)) =>
            /\ exit = "success"
            /\ \A f \in AllFields :
                   IF GroupOf(f) <= k THEN FieldMatches(f, settings, saved)
                   ELSE IF f \in DOMAIN LiteralDefaults
                   THEN settings[f] = LiteralDefaults[f]
                   ELSE settings[f] = before[f]

\* A blob cut after group 8, decoded into a record that setters had changed:
\* the later members keep that record's values.
C2_Witness ==
    /\ AtGroup(8) /\ Valid(saved)
    /\ exit = "success"
    /\ before # DefaultVariables
    /\ settings.smallDialogsList = saved.smallDialogsList
    /\ settings.thirdColumnWidth = before.thirdColumnWidth
    /\ saved.thirdColumnWidth # before.thirdColumnWidth

\* C3: when constructFromSerialized takes a failure exit (the stream is in an
\* error state, or the auto-download decoder reports failure) the record is
\* what it was before the call.
C3_FailureLeavesRecord ==
    (exit \in {"badData", "badAutoDownload"}) => settings = before

\* A blob cut in the middle of a field fails to decode and leaves a record
\* that differs, in members the blob does carry whole, from the one saved.
C3_Witness ==
    /\ exit = "badData"
    /\ pc = "cut"
    /\ Len(serialized) > Len(Prefix(SerializeGroups(saved, 0), 8))
    /\ settings = before
    /\ before.smallDialogsList # saved.smallDialogsList

\* C4: after a successful decode, thirdSectionInfoEnabled implies that
\* tabbedSelectorSectionEnabled is false; a blob that holds both flags as
\* true decodes to a record with the tabbed-selector flag false.
C4_InfoDisablesTabbed ==
    /\ (exit = "success") =>
           (settings.thirdSectionInfoEnabled =>
                ~settings.tabbedSelectorSectionEnabled)
    /\ (/\ exit = "success"
        /\ \/ saved.tabbedSelectorSectionEnabled /\ tamper = << 8, 0, 1 >>
           \/ saved.thirdSectionInfoEnabled /\ tamper = << 3, 0, 1 >>) =>
           (settings.thirdSectionInfoEnabled /\ ~settings.tabbedSelectorSectionEnabled)

\* A blob with both flags true has been decoded.
C4_Witness ==
    /\ exit = "success"
    /\ saved.tabbedSelectorSectionEnabled
    /\ tamper = << 8, 0, 1 >>
    /\ settings.thirdSectionInfoEnabled
    /\ ~settings.tabbedSelectorSectionEnabled

\* C5: for each enumerated member, a blob of a valid record in which that
\* member's value is outside its legal tags decodes successfully, the member
\* keeps the value it had before the decode, and every other member is
\* updated from the blob.
C5_EnumRejection ==
    \A e \in EnumFields :
        (/\ Decoded
         /\ Valid(saved)
         /\ tamper # << >>
         /\ tamper[1] = e.group /\ tamper[2] = e.offset
         /\ tamper[3] \notin e.tags) =>
            /\ exit = "success"
            /\ settings[e.name] = before[e.name]
            /\ \A f \in AllFields \ {e.name} : FieldMatches(f, settings, saved)

\* A blob with an illegal floatPlayerCorner has been decoded into a record
\* whose corner is not the default one.
C5_Witness ==
    /\ Decoded /\ Valid(saved)
    /\ tamper = << 6, 4, 3 >>
    /\ exit = "success"
    /\ before.floatPlayerCorner = 64
    /\ settings.floatPlayerCorner = 64
    /\ saved.floatPlayerCorner # 64
    /\ settings.floatPlayerColumn = saved.floatPlayerColumn

\* The raw ratio the blob holds, for a blob that reaches field group 9.
RawRatio ==
    LET at == Len(Prefix(SerializeGroups(saved, 0), 8))
    IN  Int32Of(SubSeq(serialized, at + 1, at + 4))

\* C7: a successful decode that reads the ratio leaves it in [0,1]: a raw
\* value above 1,000,000 decodes to 1, a negative one to 0, any other to
\* raw/1,000,000; and serialize writes a raw value in [0, 1,000,000]
\* whatever the ratio in memory.
C7_RatioClamp ==
    /\ (exit = "success" /\ 9 \in reads) => settings.dialogsWidthRatio \in 0 .. One
    /\ (exit = "success" /\ tamper # << >> /\ tamper[1] = 9) =>
           settings.dialogsWidthRatio =
               IF tamper[3] > kRatioScale THEN One
               ELSE IF tamper[3] < 0 THEN 0
               ELSE tamper[3] * RatioSubdivision
    /\ (pc = "written") => RawRatio \in 0 .. kRatioScale

\* A raw ratio of 1,500,000 has been decoded, to 1, into a record whose own
\* ratio was 2.
C7_Witness ==
    /\ exit = "success"
    /\ tamper = << 9, 0, (3 * kRatioScale) \div 2 >>
    /\ before.dialogsWidthRatio = 2 * One
    /\ settings.dialogsWidthRatio = One


(***************************************************************************)
(* Properties of the setters.                                              *)
(***************************************************************************)

PanelSetters ==
    {"setTabbedSelectorSectionEnabled", "setThirdSectionInfoEnabled",
     "setTabbedReplacedWithInfo"}

\* C9: under any sequence of calls of the three panel setters (and of the
\* other setters), starting with at most one of the two panel flags set, the
\* two flags are never both set; every call returns, after at most two
\* nested setter calls; and after a call of setTabbedSelectorSectionEnabled
\* or setThirdSectionInfoEnabled that changed either flag,
\* tabbedReplacedWithInfo is false.
C9_PanelExclusivity ==
    /\ ~(settings.tabbedSelectorSectionEnabled /\ settings.thirdSectionInfoEnabled)
    /\ call.op \in PanelSetters => (call.returned /\ call.depth <= 2)
    /\ (/\ call.op \in PanelSetters \ {"setTabbedReplacedWithInfo"}
        /\ \/ settings.tabbedSelectorSectionEnabled # call.tabbed
           \/ settings.thirdSectionInfoEnabled # call.info)
           => ~tabbedReplacedWithInfo

\* setThirdSectionInfoEnabled(true) with the tabbed selector enabled and
\* tabbedReplacedWithInfo set: it disabled the selector through the nested
\* call and reset tabbedReplacedWithInfo.
C9_Witness ==
    /\ call.op = "setThirdSectionInfoEnabled"
    /\ call.arg = TRUE
    /\ call.tabbed /\ ~call.info /\ call.replaced
    /\ call.depth = 2
    /\ call.returned
    /\ settings.thirdSectionInfoEnabled
    /\ ~settings.tabbedSelectorSectionEnabled
    /\ ~tabbedReplacedWithInfo

(***************************************************************************)
(* Properties of the session.                                              *)
(***************************************************************************)

\* C6: a restore migrates (savePrivacy, saveSettingsDelayed) exactly when
\* its decode succeeded and read the legacy value 4; a blob written by
\* serialize holds 0 there, so a restore from it reads 0, does not migrate,
\* and leaves the legacy flag of the record unset, after any number of saves
\* and restores.
C6_LegacyMigratesOnce ==
    /\ restored.ran =>
           (restored.migrated <=>
                (/\ restored.exit = "success"
                 /\ restored.legacy = kLegacyCallsPeerToPeerNobody))
    /\ (restored.ran /\ restored.from = "serialize") =>
           /\ restored.exit = "success"
           /\ restored.legacy = 0
           /\ ~restored.migrated
    /\ (running /\ restored.from = "serialize") =>
           ~settings.hadLegacyCallsPeerToPeerNobody

\* The first session migrated and saved; the second one restored the blob
\* serialize wrote and did not migrate.
C6_Witness ==
    /\ sessions = 2
    /\ running
    /\ privacySaves = 1
    /\ restored.from = "serialize"
    /\ ~restored.migrated
    /\ storedBy = "serialize"

\* C8: a save is pending exactly while the save timer runs; a step that
\* writes the settings writes them once, when at least one
\* saveSettingsDelayed call is pending and the delay of the latest call has
\* elapsed, and leaves no save pending and the timer idle; the pending calls
\* are dropped only by that write or by the end of the session; and they are
\* eventually written or dropped.
C8_SaveDebounce ==
    /\ [](saveTimer.active <=> pendingSaves > 0)
    /\ [][/\ writes' # writes =>
                 /\ writes' = writes + 1
                 /\ pendingSaves > 0
                 /\ now >= latestSave.at + latestSave.delay
                 /\ pendingSaves' = 0
                 /\ ~saveTimer'.active
          /\ (pendingSaves > 0 /\ pendingSaves' = 0) =>
                 (writes' = writes + 1 \/ ~running')]_vars
    /\ (pendingSaves > 0) ~> (pendingSaves = 0)

\* Two saveSettingsDelayed calls, the second one a tick after the first and
\* before the timer fired, and one write, when the delay of the second call
\* had elapsed.
C8_Witness ==
    /\ writes = 1
    /\ privacySaves = 0
    /\ sessions = 1
    /\ latestSave.at = TickMs
    /\ now = latestSave.at + latestSave.delay
    /\ pendingSaves = 0
    /\ ~saveTimer.active
    /\ running

(***************************************************************************)
(* Properties of the auto-lock.                                            *)
(***************************************************************************)

\* C10: a run of checkAutoLock with a passcode set and the app not locked
\* either locks in that run (the user idle for AutoLock seconds or more, or
\* the time more than 3000 ms past a positive _shouldLockAt) or arms the
\* timer for exactly the idle time left and records that instant in
\* _shouldLockAt; with no passcode or the app locked it does not lock,
\* cancels the timer and zeroes _shouldLockAt; and while the timer runs with
\* a passcode set, the app is eventually locked unless the user or the app
\* intervenes.
C10_AutoLockProgress ==
    /\ [][check'.flip # check.flip =>
              LET should == IF check'.by = "timer" THEN shouldLockAt ELSE 0
                  idle == now - lastNonIdle
                  lockIn == autoLock * MsPerSecond
              IN  IF passcode' /\ ~locked
                  THEN IF \/ idle >= lockIn
                          \/ (should > 0 /\ now > should + kAutoLockTimeoutLateMs)
                       THEN /\ check'.branch = "lock"
                            /\ locked'
                            /\ ~autoLockTimer'.active
                            /\ shouldLockAt' = 0
                       ELSE /\ check'.branch = "arm"
                            /\ ~locked'
                            /\ autoLockTimer' = [active |-> TRUE,
                                                 deadline |-> now + (lockIn - idle)]
                            /\ shouldLockAt' = now + (lockIn - idle)
                  ELSE /\ check'.branch = "cancel"
                       /\ locked' = locked
                       /\ ~autoLockTimer'.active
                       /\ shouldLockAt' = 0]_vars
    /\ \A e \in BOOLEAN :
           (passcode /\ ~locked /\ autoLockTimer.active /\ epoch = e)
               ~> (locked \/ epoch # e)

\* The timer fired more than 3000 ms after the instant it was armed for, the
\* user active in between: checkAutoLock locked although the idle time was
\* below AutoLock seconds.
C10_Witness ==
    /\ check.by = "timer"
    /\ check.branch = "lock"
    /\ check.late
    /\ locked
    /\ passcode
    /\ now - lastNonIdle < autoLock * MsPerSecond
    /\ ~autoLockTimer.active
    /\ shouldLockAt = 0

(***************************************************************************)
(* Termination of the decoder.                                             *)
(***************************************************************************)

\* C11: on every blob, a count that is negative or beyond the entries present
\* included, constructFromSerialized reaches a success or failure exit, and
\* neither of its two loops makes more iterations than the rest of the blob
\* holds entries.
C11_DecodeTerminates ==
    exit # "none" =>
        /\ exit \in {"empty", "success", "badData", "badAutoDownload"}
        /\ loops.sound <= loops.soundEntries
        /\ loops.hidden <= loops.hiddenEntries

====
